---------------------------- MODULE Spec2Model ----------------------------
(***************************************************************************)
(* WildInfo client (App component + geminiService): the session state held *)
(* in React state, and the asynchronous handlers that mutate it.           *)
(*                                                                         *)
(* Modelling conventions                                                   *)
(*  - A JavaScript string is a sequence of atoms.  Taxonomic fields        *)
(*    (phylum, class, classification) and the exclusion terms are          *)
(*    sequences of characters, so toLowerCase() and includes() are         *)
(*    computed character by character.  Messages and search terms are      *)
(*    sequences of chunks; includes(phrase) is containment of the chunk.   *)
(*  - null / undefined is the value Null, the empty sequence.  The program *)
(*    tests its nullable strings for truthiness only and never assigns     *)
(*    them the empty string, so null and '' need not be told apart.        *)
(*  - An event handler runs to its first await atomically (React batches   *)
(*    its state updates); each resumption after an await is its own step.  *)
(*    A handler reads the state variables of the render that created it:   *)
(*    the values it closed over are stored with the pending call.          *)
(*  - The effect with dependencies [mode, primaryAnimal, comparisonAnimal] *)
(*    runs at the end of every step that changes one of them.              *)
(*  - A control is a step only where the render shows it enabled.          *)
(*                                                                         *)
(* Specifications                                                          *)
(*    Spec        searches, comparison summaries, mode and video jobs      *)
(*    SpecVoice   searches, comparison summaries, mode and voice capture   *)
(*    SpecLookup  searches with every answer of the lookup providers       *)
(*    SpecVideo   the video operation called in any state, with every      *)
(*                failure of its providers                                 *)
(*    SpecTaxa    searches answered with a profile of every taxon          *)
(*    SpecSpeech  the capture session with every event and error code, the *)
(*                search bar with blank input, searches that succeed       *)
(*    FairSpecVideo  SpecVideo where every pending call of a job is        *)
(*                answered in the end                                      *)
(***************************************************************************)
EXTENDS Integers, Sequences, FiniteSets, TLC

Null == <<>>

(***************************************************************************)
(* Bounds of the model.                                                    *)
(***************************************************************************)
MaxDist == 2          \* longest distribution list the provider returns
MaxPending == 2       \* asynchronous calls in flight (searches, summaries, video jobs)
MaxPolls == 1         \* not-done / null poll answers per video job

(***************************************************************************)
(* Strings.                                                                *)
(***************************************************************************)
Range(s) == { s[i] : i \in DOMAIN s }

UpperChars == <<"A","B","C","D","E","F","G","H","I","J","K","L","M","N","O","P","Q","R","S","T","U","V","W","X","Y","Z">>
LowerChars == <<"a","b","c","d","e","f","g","h","i","j","k","l","m","n","o","p","q","r","s","t","u","v","w","x","y","z">>

LowerChar(c) ==
    IF \E i \in DOMAIN UpperChars : UpperChars[i] = c
    THEN LowerChars[CHOOSE i \in DOMAIN UpperChars : UpperChars[i] = c]
    ELSE c

\* String.prototype.toLowerCase
ToLowerCase_Identity(s) == s
ToLowerCase(s) == [i \in DOMAIN s |-> LowerChar(s[i])]

\* String.prototype.includes
Includes(s, t) ==
    \E i \in 0..(Len(s) - Len(t)) : SubSeq(s, i + 1, i + Len(t)) = t

IsSpace(a) == a \in {" ", "\t", "\n"}

RECURSIVE TrimStart(_)
TrimStart(s) ==
    IF s # <<>> /\ IsSpace(Head(s)) THEN TrimStart(Tail(s)) ELSE s

RECURSIVE TrimEnd(_)
TrimEnd(s) ==
    IF s # <<>> /\ IsSpace(s[Len(s)]) THEN TrimEnd(SubSeq(s, 1, Len(s) - 1)) ELSE s

\* String.prototype.trim
Trim_Identity(s) == s
Trim(s) == TrimEnd(TrimStart(s))

\* JavaScript truthiness of a string: non-empty
Truthy(s) == s # <<>>

(***************************************************************************)
(* geminiService.fetchAnimalData                                           *)
(***************************************************************************)
invertebrateLatinTerms ==
    { <<"a","r","t","h","r","o","p","o","d","a">>,
      <<"i","n","s","e","c","t","a">>,
      <<"a","r","a","c","h","n","i","d","a">>,
      <<"c","r","u","s","t","a","c","e","a">>,
      <<"m","y","r","i","a","p","o","d","a">>,
      <<"m","o","l","l","u","s","c","a">>,
      <<"a","n","n","e","l","i","d","a">>,
      <<"c","n","i","d","a","r","i","a">>,
      <<"e","c","h","i","n","o","d","e","r","m","a","t","a">>,
      <<"p","o","r","i","f","e","r","a">>,
      <<"p","l","a","t","y","h","e","l","m","i","n","t","h","e","s">>,
      <<"n","e","m","a","t","o","d","a">> }

invertebrateCommonKeywords ==
    { <<"i","n","s","e","c","t">>,
      <<"a","r","t","h","r","o","p","o","d">>,
      <<"a","r","a","c","h","n","i","d">>,
      <<"c","r","u","s","t","a","c","e","a","n">>,
      <<"m","y","r","i","a","p","o","d">>,
      <<"m","o","l","l","u","s","c">>,
      <<"m","o","l","l","u","s","k">>,
      <<"a","n","n","e","l","i","d">>,
      <<"w","o","r","m">>,
      <<"c","n","i","d","a","r","i","a","n">>,
      <<"j","e","l","l","y","f","i","s","h">>,
      <<"e","c","h","i","n","o","d","e","r","m">>,
      <<"s","t","a","r","f","i","s","h">>,
      <<"s","p","o","n","g","e">>,
      <<"n","e","m","a","t","o","d","e">>,
      <<"b","u","g">>,
      <<"c","e","n","t","i","p","e","d","e">>,
      <<"m","i","l","l","i","p","e","d","e">> }

\* lines 108-110: Latin terms are matched against phylum and class only
isLatinExcluded(animalProfile) ==
    LET lowerPhylum == ToLowerCase(animalProfile.phylum)
        lowerClass  == ToLowerCase(animalProfile.class)
    IN  \E term \in invertebrateLatinTerms :
            Includes(lowerPhylum, term) \/ Includes(lowerClass, term)

\* lines 112-116: common keywords are matched against all three fields
isKeywordExcluded(animalProfile) ==
    LET lowerPhylum == ToLowerCase(animalProfile.phylum)
        lowerClass  == ToLowerCase(animalProfile.class)
        lowerClassification == ToLowerCase(animalProfile.classification)
    IN  \E keyword \in invertebrateCommonKeywords :
            \/ Includes(lowerPhylum, keyword)
            \/ Includes(lowerClass, keyword)
            \/ Includes(lowerClassification, keyword)

WildInfoPhrase == "WildInfo focuses on larger animals."

\* the message of the Error thrown at lines 119-121
DomainRejectedMessage(animalName) ==
    <<WildInfoPhrase,
      " We currently do not provide detailed information for small invertebrates like '">>
    \o animalName
    \o <<"'. Please search for a different type of animal.">>

NoTextMessage == <<"No textual data returned from Gemini">>

\* line 86: animalProfile.stats.reach = animalProfile.distribution.length
SetReach_Trusted(animalProfile) == animalProfile
SetReach(animalProfile) ==
    [animalProfile EXCEPT !.stats.reach = Len(animalProfile.distribution)]

\* lines 139-144: the first part carrying inline data becomes the data URL
HasInlineData(part) == "inlineData" \in DOMAIN part

ImageUrlOf_Placeholder(imageResponse) == <<"https://picsum.photos/400">>
ImageUrlOf(imageResponse) ==
    IF imageResponse.kind = "parts"
       /\ \E i \in DOMAIN imageResponse.parts : HasInlineData(imageResponse.parts[i])
    THEN LET i == CHOOSE k \in DOMAIN imageResponse.parts :
                     /\ HasInlineData(imageResponse.parts[k])
                     /\ \A j \in 1..(k - 1) : ~HasInlineData(imageResponse.parts[j])
         IN  <<"data:", imageResponse.parts[i].inlineData.mimeType, ";base64,",
               imageResponse.parts[i].inlineData.data>>
    ELSE Null

Thrown(message) == [ok |-> FALSE, message |-> message]
Returned(value) == [ok |-> TRUE, value |-> value]
\* a rejection with undefined or null: reading .message of it throws
ThrownNothing == [ok |-> FALSE]

(***************************************************************************)
(* fetchAnimalData(animalName) as a function of what the text model and    *)
(* the image model answer.  It touches no shared state, so its two awaits  *)
(* are folded into one result.                                             *)
(*   textResponse:  [kind |-> "reject", message]   the SDK call rejects    *)
(*                  [kind |-> "empty"]             response.text is empty  *)
(*                  [kind |-> "invalid", message]  JSON.parse throws       *)
(*                  [kind |-> "json", profile]     the parsed profile      *)
(*   imageResponse: [kind |-> "reject"] or [kind |-> "parts", parts]       *)
(***************************************************************************)
fetchAnimalData(animalName, textResponse, imageResponse) ==
    CASE textResponse.kind = "reject"  -> Thrown(textResponse.message)
      [] textResponse.kind = "rejectNothing" -> ThrownNothing
      [] textResponse.kind = "empty"   -> Thrown(NoTextMessage)
      [] textResponse.kind = "invalid" -> Thrown(textResponse.message)
      [] OTHER ->
            LET animalProfile == SetReach(textResponse.profile)
            IN  IF isLatinExcluded(animalProfile) \/ isKeywordExcluded(animalProfile)
                THEN Thrown(DomainRejectedMessage(animalName))
                ELSE Returned([animalProfile EXCEPT !.imageUrl = ImageUrlOf(imageResponse)])


(***************************************************************************)
(* What the remote providers may answer.                                   *)
(***************************************************************************)
Chars_Chordata == <<"C","h","o","r","d","a","t","a">>
Chars_Mammalia == <<"M","a","m","m","a","l","i","a">>
Chars_Mammal   == <<"M","a","m","m","a","l">>

\* phylum, class, classification of the profiles the text model returns
CleanTaxa == { <<Chars_Chordata, Chars_Mammalia, Chars_Mammal>> }

ExcludedTaxa ==
    { \* the Honeybee profile
      << <<"A","r","t","h","r","o","p","o","d","a">>, <<"I","n","s","e","c","t","a">>, <<"I","n","s","e","c","t">> >>,
      \* upper case phylum only
      << <<"A","R","T","H","R","O","P","O","D","A">>, <<"H","e","x","a","p","o","d","s">>, <<"F","l","y">> >>,
      \* Latin term inside the class only
      << <<"A","n","i","m","a","l","i","a">>, <<"S","u","b","p","h","y","l","u","m"," ","C","r","u","s","t","a","c","e","a">>, <<"C","r","a","b">> >>,
      \* common keyword inside the phylum only
      << <<"R","o","u","n","d","W","o","r","m","s">>, <<"C","h","r","o","m","a","d","o","r","e","a">>, <<"P","a","r","a","s","i","t","e">> >>,
      \* common keyword inside the class only
      << <<"A","n","i","m","a","l","i","a">>, <<"T","r","u","e"," ","J","e","l","l","y","f","i","s","h">>, <<"M","e","d","u","s","a">> >> }

ProviderNames == { "Lion", "Tiger" }
ProviderReach == { 0, 99 }

Distribution(n) == [i \in 1..n |-> "Africa (~20000)"]

Profile(name, taxon, n, reach) ==
    [ name |-> name,
      phylum |-> taxon[1], class |-> taxon[2], classification |-> taxon[3],
      distribution |-> Distribution(n),
      stats |-> [reach |-> reach],
      imageUrl |-> Null ]

HoneybeeTaxon ==
    << <<"A","r","t","h","r","o","p","o","d","a">>, <<"I","n","s","e","c","t","a">>, <<"I","n","s","e","c","t">> >>

\* a sponge whose phylum and class are given in English and whose
\* classification is the Latin name of the phylum
SpongeTaxon ==
    << <<"A","n","i","m","a","l","i","a">>,
       <<"D","e","m","o","s","p","o","n","g","i","a","e">>,
       <<"P","o","r","i","f","e","r","a">> >>

\* every profile the lookup specification lets the text model return
Profiles ==
    { Profile(name, taxon, n, reach) :
        name \in ProviderNames, taxon \in CleanTaxa, n \in 0..MaxDist, reach \in ProviderReach }
    \cup { Profile("Honeybee", taxon, 1, 1) : taxon \in ExcludedTaxa }

\* the profiles of the taxa specification: an animal of every taxon
TaxaProfiles ==
    { Profile("Honeybee", taxon, 1, 1) : taxon \in ExcludedTaxa }
    \cup { Profile("Sea Sponge", SpongeTaxon, 1, 1) }
    \cup { Profile("Lion", taxon, 1, 1) : taxon \in CleanTaxa }

\* the profiles of the main specification: one per name
CommonProfiles ==
    { Profile(name, taxon, MaxDist, 99) : name \in ProviderNames, taxon \in CleanTaxa }
    \cup { Profile("Honeybee", HoneybeeTaxon, 1, 1) }

XhrMessage == <<"got status: 0. ", "Rpc failed due to xhr error.", " uri: generateContent">>
ApiErrorMessage == <<"{\"error\":{\"code\":500,\"message\":\"internal\"}}">>
SyntaxErrorMessage == <<"Unexpected token < in JSON at position 0">>

RejectedTextResponses ==
    { [kind |-> "reject", message |-> XhrMessage],
      [kind |-> "reject", message |-> ApiErrorMessage],
      [kind |-> "rejectNothing"] }

TextResponses ==
    RejectedTextResponses
    \cup { [kind |-> "empty"], [kind |-> "invalid", message |-> SyntaxErrorMessage] }
    \cup { [kind |-> "json", profile |-> p] : p \in Profiles }

\* the answers of the main specification: a rejection and one profile per name
CommonTextResponses ==
    { [kind |-> "rejectNothing"] }
    \cup { [kind |-> "json", profile |-> p] : p \in CommonProfiles }

ImageParts ==
    [kind |-> "parts",
     parts |-> << [text |-> "Here is the image"],
                  [inlineData |-> [mimeType |-> "image/png", data |-> "iVBORw0KGgo"]] >>]

ImageResponses == { [kind |-> "reject"], [kind |-> "parts", parts |-> <<>>], ImageParts }

CommonImageResponses == { ImageParts }

\* the terms a search can be started with
SearchTerms == { <<"honeybee">> }
SuggestedAnimals == { <<"Snow Leopard">> }

\* a recognition event: the results from resultIndex on
SpeechEvents ==
    { << [transcript |-> <<"tiger">>, isFinal |-> TRUE] >>,
      << [transcript |-> <<" ">>, isFinal |-> FALSE] >> }

RECURSIVE Transcript(_, _)
\* lines 210-220: the concatenated transcripts of the results that are final
\* (or, with final = FALSE, of those that are not)
Transcript(results, final) ==
    IF results = <<>> THEN <<>>
    ELSE (IF Head(results).isFinal = final THEN Head(results).transcript ELSE <<>>)
         \o Transcript(Tail(results), final)

\* line 221: finalTranscript || interimTranscript
EventText(results) ==
    IF Truthy(Transcript(results, TRUE)) THEN Transcript(results, TRUE)
    ELSE Transcript(results, FALSE)

\* the recognition events of the capture session's own specification: final,
\* blank interim, interim, and an event with a final and an interim result
SessionEvents ==
    SpeechEvents
    \cup { << [transcript |-> <<"ti">>, isFinal |-> FALSE] >>,
           << [transcript |-> <<"tiger">>, isFinal |-> TRUE],
              [transcript |-> <<" ">>, isFinal |-> FALSE] >> }

\* what the user may have typed when the form is submitted
TypedTerms == SearchTerms \cup { <<>>, <<" ">> }

VoiceTerms == { Trim(EventText(e)) : e \in SpeechEvents } \ { <<>> }

AllTerms == SearchTerms \cup SuggestedAnimals \cup VoiceTerms

\* fetchAnimalData tabulated over the answers of the providers
LookupsOver(textResponses, imageResponses) ==
    { [term |-> term, textResponse |-> tr, imageResponse |-> ir,
       result |-> fetchAnimalData(term, tr, ir)] :
        term \in AllTerms, tr \in textResponses, ir \in imageResponses }

Lookups == LookupsOver(TextResponses, ImageResponses)
CommonLookups == LookupsOver(CommonTextResponses, CommonImageResponses)
TaxaLookups ==
    LookupsOver({ [kind |-> "json", profile |-> p] : p \in TaxaProfiles }, CommonImageResponses)

(***************************************************************************)
(* App: the React state, the refs and the pending asynchronous calls.      *)
(***************************************************************************)
VARIABLES
    primaryAnimal, comparisonAnimal, isLoading, error, mode,
    videoUrl, isVideoLoading, videoError, showVideoApiKeyPrompt,
    isVoiceListening, voiceSearchText, voiceSearchError,
    latestVoiceSearchText,   \* the ref mirroring voiceSearchText (lines 113, 123-125)
    recognitionRef,          \* Null, or the capture session with the handleSearch
                             \* instance its handlers closed over (line 115)
    recognition,             \* the host's capture session: "inactive", "starting",
                             \* "active", "stopping" or "errored"
    comparisonSummaryData, isComparisonSummaryLoading, comparisonSummaryError,
    searches,       \* handleSearch calls suspended at `await fetchAnimalData`
    summaries,      \* fetchComparisonSummary calls suspended at their await
    videoJobs       \* handleGenerateVideo calls suspended at one of their awaits

entityVars  == <<primaryAnimal, comparisonAnimal, mode>>
fetchVars   == <<isLoading, error>>
videoVars   == <<videoUrl, isVideoLoading, videoError, showVideoApiKeyPrompt>>
summaryVars == <<comparisonSummaryData, isComparisonSummaryLoading, comparisonSummaryError>>
voiceVars   == <<isVoiceListening, voiceSearchText, voiceSearchError,
                 latestVoiceSearchText, recognitionRef, recognition>>
pendingVars == <<searches, summaries, videoJobs>>
vars == <<entityVars, fetchVars, videoVars, voiceVars, summaryVars, pendingVars>>

\* the number of asynchronous calls in flight
Pending == Len(searches) + Len(summaries) + Len(videoJobs)

RemoveAt_Kept(seq, i) == seq
RemoveAt(seq, i) == SubSeq(seq, 1, i - 1) \o SubSeq(seq, i + 1, Len(seq))

\* lines 95-120: the useState initial values
Init ==
    /\ primaryAnimal = Null /\ comparisonAnimal = Null
    /\ isLoading = FALSE /\ error = Null /\ mode = "explore"
    /\ videoUrl = Null /\ isVideoLoading = FALSE /\ videoError = Null
    /\ showVideoApiKeyPrompt = FALSE
    /\ isVoiceListening = FALSE /\ voiceSearchText = <<>> /\ voiceSearchError = Null
    /\ latestVoiceSearchText = <<>> /\ recognitionRef = Null /\ recognition = "inactive"
    /\ comparisonSummaryData = Null /\ isComparisonSummaryLoading = FALSE
    /\ comparisonSummaryError = Null
    /\ searches = <<>> /\ summaries = <<>> /\ videoJobs = <<>>

(***************************************************************************)
(* lines 127-150: the comparison summary effect.  `changed` tells whether  *)
(* the step changed a dependency; m, p, c are the new mode and animals;    *)
(* data, loading, err are the summary state the step's own setters leave,  *)
(* and ended is the number of pending calls the step completes.            *)
(***************************************************************************)
SummaryEnabled(m, p, c) == m = "compare" /\ p # Null /\ c # Null

fetchComparisonSummary_KeepLast(changed, m, p, c, data, loading, err, ended) ==
    IF changed /\ SummaryEnabled(m, p, c)
    THEN /\ Pending - ended < MaxPending
         /\ comparisonSummaryData' = data
         /\ isComparisonSummaryLoading' = TRUE
         /\ comparisonSummaryError' = Null
         /\ summaries' = Append(summaries, [animal1 |-> p.name, animal2 |-> c.name])
    ELSE /\ comparisonSummaryData' = data
         /\ isComparisonSummaryLoading' = loading
         /\ comparisonSummaryError' = err
         /\ summaries' = summaries
fetchComparisonSummary(changed, m, p, c, data, loading, err, ended) ==
    IF ~changed
    THEN /\ comparisonSummaryData' = data
         /\ isComparisonSummaryLoading' = loading
         /\ comparisonSummaryError' = err
         /\ summaries' = summaries
    ELSE IF SummaryEnabled(m, p, c)
    THEN /\ Pending - ended < MaxPending
         /\ comparisonSummaryData' = data
         /\ isComparisonSummaryLoading' = TRUE
         /\ comparisonSummaryError' = Null
         /\ summaries' = Append(summaries, [animal1 |-> p.name, animal2 |-> c.name])
    ELSE /\ comparisonSummaryData' = Null
         /\ isComparisonSummaryLoading' = FALSE
         /\ comparisonSummaryError' = Null
         /\ summaries' = summaries


(***************************************************************************)
(* lines 153-186: handleSearch.  closure is the render the called          *)
(* function instance belongs to: [mode, primaryAnimal] as it saw them.     *)
(***************************************************************************)
CurrentClosure == [mode |-> mode, primaryAnimal |-> primaryAnimal # Null]

\* lines 154-162: up to the await, but for the voice state the caller may
\* write as well
handleSearch_start(term, closure) ==
    /\ Pending < MaxPending
    /\ isLoading' = TRUE
    /\ error' = Null
    /\ videoUrl' = Null
    /\ videoError' = Null
    /\ showVideoApiKeyPrompt' = FALSE
    /\ voiceSearchError' = Null
    /\ searches' = Append(searches,
                     [term |-> term, closure |-> closure,
                      startedIn |-> [mode |-> mode,
                                     primaryAnimal |-> primaryAnimal # Null,
                                     comparisonAnimal |-> comparisonAnimal # Null]])
    /\ UNCHANGED <<entityVars, isVideoLoading, summaryVars, summaries, videoJobs>>

handleSearch(term, closure) ==
    /\ handleSearch_start(term, closure)
    /\ UNCHANGED <<isVoiceListening, voiceSearchText, latestVoiceSearchText,
                   recognitionRef, recognition>>

\* lines 175-181: the message stored by the catch block
NetworkIssueMessage ==
    <<"Network or API service issue. Please check your internet connection and try again later.">>
UnknownErrorMessage ==
    <<"Could not find that animal or an error occurred. Try something common like 'Lion' or 'Peregrine Falcon'.">>

SearchErrorMessage_Raw(message) == message
SearchErrorMessage(message) ==
    IF Includes(message, <<WildInfoPhrase>>) THEN message
    ELSE IF Includes(message, <<"Rpc failed due to xhr error.">>) THEN NetworkIssueMessage
    ELSE UnknownErrorMessage

\* lines 163-172: which slot the fetched animal goes to
PlacedPrimary_Latest(closure, data, primary) ==
    IF ~isLoading THEN primary
    ELSE IF closure.mode = "explore" THEN data
    ELSE IF ~closure.primaryAnimal THEN data ELSE primary
PlacedPrimary(closure, data, primary) ==
    IF closure.mode = "explore" THEN data
    ELSE IF ~closure.primaryAnimal THEN data ELSE primary

PlacedComparison(closure, data, comparison) ==
    IF closure.mode = "explore" THEN Null
    ELSE IF ~closure.primaryAnimal THEN comparison ELSE data

\* lines 162-185: the continuation after `await fetchAnimalData(term)`
handleSearch_resume(i, lookup) ==
    LET call   == searches[i]
        result == lookup.result
        p == IF result.ok THEN PlacedPrimary(call.closure, result.value, primaryAnimal)
             ELSE primaryAnimal
        c == IF result.ok THEN PlacedComparison(call.closure, result.value, comparisonAnimal)
             ELSE comparisonAnimal
    IN  /\ lookup.term = call.term
        /\ primaryAnimal' = p
        /\ comparisonAnimal' = c
        /\ error' = IF result.ok THEN error
                     ELSE IF "message" \in DOMAIN result
                     THEN SearchErrorMessage(result.message)
                     ELSE error    \* line 175 throws inside the catch block
        /\ isLoading' = FALSE
        /\ searches' = RemoveAt(searches, i)
        /\ fetchComparisonSummary(result.ok \/ p # primaryAnimal \/ c # comparisonAnimal,
                                  mode, p, c, comparisonSummaryData,
                                  isComparisonSummaryLoading, comparisonSummaryError, 1)
        /\ UNCHANGED <<mode, videoVars, voiceVars, videoJobs>>

(***************************************************************************)
(* lines 133-141: the continuation of fetchComparisonSummary after         *)
(* `await generateComparisonSummary(primaryAnimal, comparisonAnimal)`      *)
(* (geminiService lines 199-256).                                          *)
(***************************************************************************)
SummaryFailedMessage == <<"Failed to generate comparison summary. Please try again.">>

\* what the text model may answer for the pair of the request
SummaryResponses(request) ==
    { [kind |-> "reject"], [kind |-> "empty"], [kind |-> "invalid"] }
    \cup { [kind |-> "json",
            value |-> [comparisonSummary |-> <<"Compare ", request.animal1, " and ", request.animal2>>,
                       winner |-> w]] :
           w \in {request.animal1, "It's a tie"} }

generateComparisonSummary(response) ==
    IF response.kind = "json" THEN Returned(response.value)
    ELSE Thrown(<<"No comparison summary">>)

fetchComparisonSummary_resume(i, response) ==
    LET result == generateComparisonSummary(response)
    IN  /\ comparisonSummaryData' = IF result.ok THEN result.value ELSE comparisonSummaryData
        /\ comparisonSummaryError' = IF result.ok THEN comparisonSummaryError ELSE SummaryFailedMessage
        /\ isComparisonSummaryLoading' = FALSE
        /\ summaries' = RemoveAt(summaries, i)
        /\ UNCHANGED <<entityVars, fetchVars, videoVars, voiceVars, searches, videoJobs>>

(***************************************************************************)
(* lines 373-410 and the inline handlers of the render.                    *)
(***************************************************************************)
\* SpeechRecognition.stop(): a running session winds down, an idle one stays idle
Stopped_Restarted(state) == IF state = "active" THEN "starting" ELSE state
Stopped(state) == IF state \in {"starting", "active"} THEN "stopping" ELSE state

ToggledComparison_Kept(newMode, comparison) == comparison
ToggledComparison(newMode, comparison) ==
    IF newMode = "explore" THEN Null ELSE comparison

\* lines 395-410; the button is rendered only with a primary animal (line 443)
toggleMode_KeepsPrompt ==
    LET newMode == IF mode = "explore" THEN "compare" ELSE "explore"
        c == ToggledComparison(newMode, comparisonAnimal)
    IN  /\ primaryAnimal # Null
        /\ mode' = newMode
        /\ comparisonAnimal' = c
        /\ videoUrl' = Null
        /\ isVideoLoading' = FALSE
        /\ videoError' = Null
        /\ fetchComparisonSummary(TRUE, newMode, primaryAnimal, c, Null, FALSE, Null, 0)
        /\ UNCHANGED <<showVideoApiKeyPrompt, primaryAnimal, fetchVars, voiceVars, searches,
                       videoJobs>>
toggleMode ==
    LET newMode == IF mode = "explore" THEN "compare" ELSE "explore"
        c == ToggledComparison(newMode, comparisonAnimal)
    IN  /\ primaryAnimal # Null
        /\ mode' = newMode
        /\ comparisonAnimal' = c
        /\ videoUrl' = Null
        /\ isVideoLoading' = FALSE
        /\ videoError' = Null
        /\ showVideoApiKeyPrompt' = FALSE
        /\ fetchComparisonSummary(TRUE, newMode, primaryAnimal, c, Null, FALSE, Null, 0)
        /\ UNCHANGED <<primaryAnimal, fetchVars, voiceVars, searches, videoJobs>>

\* lines 373-393; the header is always rendered (line 435)
reset ==
    /\ primaryAnimal' = Null
    /\ comparisonAnimal' = Null
    /\ mode' = "explore"
    /\ error' = Null
    /\ videoUrl' = Null
    /\ isVideoLoading' = FALSE
    /\ videoError' = Null
    /\ showVideoApiKeyPrompt' = FALSE
    /\ fetchComparisonSummary(primaryAnimal # Null \/ comparisonAnimal # Null \/ mode # "explore",
                              "explore", Null, Null, Null, FALSE, Null, 0)
    /\ recognition' = IF recognitionRef # Null /\ isVoiceListening
                      THEN Stopped(recognition) ELSE recognition
    /\ isVoiceListening' = FALSE
    /\ voiceSearchText' = <<>>
    /\ latestVoiceSearchText' = <<>>
    /\ voiceSearchError' = Null
    /\ UNCHANGED <<isLoading, recognitionRef, searches, videoJobs>>

\* lines 644-648 and 837-841: both buttons are rendered only with a
\* comparison animal inside the primary animal's block (lines 546, 641, 780)
clearComparison ==
    /\ primaryAnimal # Null /\ comparisonAnimal # Null
    /\ comparisonAnimal' = Null
    /\ fetchComparisonSummary(TRUE, mode, primaryAnimal, Null,
                              Null, isComparisonSummaryLoading, Null, 0)
    /\ UNCHANGED <<primaryAnimal, mode, fetchVars, videoVars, voiceVars, searches, videoJobs>>

(***************************************************************************)
(* lines 287-371: handleGenerateVideo, and geminiService lines 153-197:    *)
(* generateAnimalVideo.  A pending call is [animalName, pc, polls]; pc     *)
(* names the await it is suspended at:                                     *)
(*   "hasSelectedApiKey"  line 301, the host's credential check            *)
(*   "noCredentialCheck"  line 301, no host check: hasKey is true          *)
(*   "openSelectKey"      line 306                                         *)
(*   "generateVideos"     geminiService line 160                           *)
(*   "getVideosOperation" geminiService lines 171-172 (the wait, the poll) *)
(*   "fetch"              geminiService lines 191 and 195 (fetch, blob)    *)
(***************************************************************************)
\* an Error object with the given message
ErrorOf(message) == [isError |-> TRUE, message |-> message]

\* the text of a structured provider failure
ApiErrorText(code, message) ==
    <<"{\"error\":{\"code\":", code, ",\"message\":\"", message, "\"}}">>

\* JSON.parse of an error message: the parsed value, or Null when it throws
JsonParse(text) ==
    IF Len(text) = 5 /\ text[1] = "{\"error\":{\"code\":" /\ text[3] = ",\"message\":\""
       /\ text[5] = "\"}}"
    THEN [ok |-> TRUE, value |-> [error |-> [code |-> text[2], message |-> text[4]]]]
    ELSE IF text = <<"{\"status\":\"UNAVAILABLE\"}">>
    THEN [ok |-> TRUE, value |-> [status |-> "UNAVAILABLE"]]
    ELSE [ok |-> FALSE]

KeyRequiredMessage ==
    <<"A valid API key from a paid Google Cloud Project with billing enabled is required for video generation. Please select a key.">>
QuotaExceededMessage ==
    <<"Video generation quota exceeded. Please try again later or check your Google Cloud billing.">>
ServiceUnavailableMessage ==
    <<"Video generation service is temporarily unavailable. Please try again later.">>
UnknownVideoErrorMessage == <<"Failed to generate video. An unknown error occurred.">>
KeyToolUnavailableMessage ==
    <<"API key selection tool is not available. Please ensure your environment is configured correctly.">>

\* lines 334-354: the switch on apiError.code
ApiErrorMessageFor_NoSwitch(apiError) ==
    <<"Video generation failed with API error: ",
      IF apiError.message # "" THEN apiError.message ELSE "Code " \o apiError.code,
      ".">>
ApiErrorMessageFor(apiError) ==
    CASE apiError.code = "404" -> KeyRequiredMessage
      [] apiError.code = "400" ->
            <<"Failed to generate video: Bad request. Please check your prompt. (Details: ",
              apiError.message, ")">>
      [] apiError.code = "403" ->
            <<"Permission denied for video generation. Ensure the Veo API is enabled in your Google Cloud Project. (Details: ",
              apiError.message, ")">>
      [] apiError.code = "429" -> QuotaExceededMessage
      [] apiError.code \in {"500", "503"} -> ServiceUnavailableMessage
      [] OTHER ->
            <<"Video generation failed with API error: ",
              IF apiError.message # "" THEN apiError.message ELSE "Code " \o apiError.code,
              ".">>

\* lines 325-362: errorMessage
VideoErrorMessage(err) ==
    IF ~err.isError THEN UnknownVideoErrorMessage
    ELSE LET parsed == JsonParse(err.message)
         IN  IF parsed.ok /\ "error" \in DOMAIN parsed.value
             THEN ApiErrorMessageFor(parsed.value.error)
             ELSE <<"Video generation failed: ">> \o err.message

\* lines 326-337: showKeyPrompt
ShowKeyPrompt_Never(err) == FALSE
ShowKeyPrompt(err) ==
    /\ err.isError
    /\ LET parsed == JsonParse(err.message)
       IN  parsed.ok /\ "error" \in DOMAIN parsed.value /\ parsed.value.error.code = "404"

\* what a provider call of the video path may reject with
ProviderErrors ==
    { ErrorOf(ApiErrorText(code, "x")) : code \in {"400", "403", "404", "429", "500", "503", "418"} }
    \cup { ErrorOf(ApiErrorText("409", "")),
           ErrorOf(<<"{\"status\":\"UNAVAILABLE\"}">>),
           ErrorOf(<<"Failed to fetch">>),
           [isError |-> FALSE, message |-> <<"rejected with a string">>] }

CommonProviderErrors ==
    { ErrorOf(ApiErrorText("404", "x")), ErrorOf(<<"Failed to fetch">>) }

NoLinkError == ErrorOf(<<"No video download link found.">>)
NoApiKeyError == ErrorOf(<<"API Key is missing when attempting to fetch video.">>)
FetchFailedError(statusText) == ErrorOf(<<"Failed to fetch video: ", statusText>>)

\* URL.createObjectURL of the bytes generated for the prompt of animalName
VideoUrlOf(animalName) == <<"blob:", animalName>>

SetPc(j, pc) == videoJobs' = [videoJobs EXCEPT ![j].pc = pc]

\* line 288: the early return
GenerateBlocked_NoPrimaryOnly(primary, loading) == primary = Null
GenerateBlocked(primary, loading) == primary = Null \/ loading

\* lines 288-301: up to the first await
handleGenerateVideo(hasCredentialCheck) ==
    IF GenerateBlocked(primaryAnimal, isVideoLoading)
    THEN UNCHANGED vars
    ELSE /\ Pending < MaxPending
         /\ isVideoLoading' = TRUE
         /\ videoError' = Null
         /\ videoUrl' = Null
         /\ showVideoApiKeyPrompt' = FALSE
         /\ videoJobs' = Append(videoJobs,
                           [animalName |-> primaryAnimal.name,
                            pc |-> IF hasCredentialCheck THEN "hasSelectedApiKey"
                                   ELSE "noCredentialCheck",
                            operation |-> Null,
                            polls |-> 0])
         /\ UNCHANGED <<entityVars, fetchVars, voiceVars, summaryVars, searches, summaries>>

\* lines 323-370: the catch block, then the finally block
handleGenerateVideo_catch_NoFinally(j, err) ==
    /\ videoError' = VideoErrorMessage(err)
    /\ showVideoApiKeyPrompt' = ShowKeyPrompt(err)
    /\ videoJobs' = RemoveAt(videoJobs, j)
    /\ UNCHANGED <<videoUrl, isVideoLoading, entityVars, fetchVars, voiceVars, summaryVars,
                   searches, summaries>>
handleGenerateVideo_catch(j, err) ==
    /\ videoError' = VideoErrorMessage(err)
    /\ showVideoApiKeyPrompt' = ShowKeyPrompt(err)
    /\ isVideoLoading' = FALSE
    /\ videoJobs' = RemoveAt(videoJobs, j)
    /\ UNCHANGED <<videoUrl, entityVars, fetchVars, voiceVars, summaryVars, searches, summaries>>

\* a step of the call that writes no state
handleGenerateVideo_goto(j, pc) ==
    /\ SetPc(j, pc)
    /\ UNCHANGED <<videoVars, entityVars, fetchVars, voiceVars, summaryVars, searches, summaries>>

\* lines 301-317: hasKey is known
handleGenerateVideo_hasKey(j, hasKey, hasOpenSelectKey) ==
    /\ videoJobs[j].pc \in {"hasSelectedApiKey", "noCredentialCheck"}
    /\ videoJobs[j].pc = "noCredentialCheck" => hasKey
    /\ IF hasKey THEN handleGenerateVideo_goto(j, "generateVideos")
       ELSE IF hasOpenSelectKey THEN handleGenerateVideo_goto(j, "openSelectKey")
       ELSE /\ videoError' = KeyToolUnavailableMessage
            /\ showVideoApiKeyPrompt' = FALSE
            /\ isVideoLoading' = FALSE
            /\ videoJobs' = RemoveAt(videoJobs, j)
            /\ UNCHANGED <<videoUrl, entityVars, fetchVars, voiceVars, summaryVars, searches, summaries>>

\* line 301: the host's credential check rejects
handleGenerateVideo_hasKeyRejected(j, err) ==
    /\ videoJobs[j].pc = "hasSelectedApiKey"
    /\ handleGenerateVideo_catch(j, err)

\* line 306: the picker closes, whatever the user did in it
handleGenerateVideo_keySelected_Rechecked(j) ==
    /\ videoJobs[j].pc = "openSelectKey"
    /\ handleGenerateVideo_goto(j, "hasSelectedApiKey")
handleGenerateVideo_keySelected(j) ==
    /\ videoJobs[j].pc = "openSelectKey"
    /\ handleGenerateVideo_goto(j, "generateVideos")

handleGenerateVideo_keySelectRejected(j, err) ==
    /\ videoJobs[j].pc = "openSelectKey"
    /\ handleGenerateVideo_catch(j, err)

\* geminiService lines 181-191: the job is done
generateAnimalVideo_done(j, downloadLink, apiKey) ==
    IF downloadLink = Null THEN handleGenerateVideo_catch(j, NoLinkError)
    ELSE IF ~apiKey THEN handleGenerateVideo_catch(j, NoApiKeyError)
    ELSE handleGenerateVideo_goto(j, "fetch")

\* an operation as the provider reports it; Null is an empty poll answer
Operations ==
    { [done |-> FALSE, uri |-> Null],
      [done |-> TRUE, uri |-> Null],
      [done |-> TRUE, uri |-> <<"https://generativelanguage.googleapis.com/download/v1/video.mp4?alt=media">>] }

\* reading a property of null throws a TypeError
NullReadError == ErrorOf(<<"Cannot read properties of null (reading 'done')">>)

\* geminiService lines 160-179: generateVideos or getVideosOperation answers;
\* operation is the last operation the provider returned
generateAnimalVideo_operation_Assigned(j, operationResponse, apiKey) ==
    /\ videoJobs[j].pc \in {"generateVideos", "getVideosOperation"}
    /\ operationResponse = Null => videoJobs[j].pc = "getVideosOperation"
    /\ IF operationResponse = Null
       THEN handleGenerateVideo_catch(j, NullReadError)
       ELSE IF operationResponse.done
       THEN generateAnimalVideo_done(j, operationResponse.uri, apiKey)
       ELSE /\ videoJobs[j].pc = "getVideosOperation" => videoJobs[j].polls < MaxPolls
            /\ videoJobs' = [videoJobs EXCEPT ![j].pc = "getVideosOperation",
                                              ![j].operation = operationResponse,
                                              ![j].polls =
                                                  IF videoJobs[j].pc = "generateVideos"
                                                  THEN @ ELSE @ + 1]
            /\ UNCHANGED <<videoVars, entityVars, fetchVars, voiceVars, summaryVars, searches, summaries>>
generateAnimalVideo_operation(j, operationResponse, apiKey) ==
    /\ videoJobs[j].pc \in {"generateVideos", "getVideosOperation"}
    /\ operationResponse = Null => videoJobs[j].pc = "getVideosOperation"
    /\ IF operationResponse # Null /\ operationResponse.done
       THEN generateAnimalVideo_done(j, operationResponse.uri, apiKey)
       ELSE /\ videoJobs[j].pc = "getVideosOperation" => videoJobs[j].polls < MaxPolls
            /\ videoJobs' = [videoJobs EXCEPT ![j].pc = "getVideosOperation",
                                              ![j].operation =
                                                  IF operationResponse = Null THEN @
                                                  ELSE operationResponse,
                                              ![j].polls =
                                                  IF videoJobs[j].pc = "generateVideos"
                                                  THEN @ ELSE @ + 1]
            /\ UNCHANGED <<videoVars, entityVars, fetchVars, voiceVars, summaryVars, searches, summaries>>

generateAnimalVideo_operationRejected(j, err) ==
    /\ videoJobs[j].pc \in {"generateVideos", "getVideosOperation"}
    /\ handleGenerateVideo_catch(j, err)

\* geminiService lines 191-196 and App lines 320-322, 367-369
generateAnimalVideo_fetched_KeepsLoading(j, response) ==
    /\ videoJobs[j].pc = "fetch"
    /\ IF response.kind = "reject" THEN handleGenerateVideo_catch(j, response.err)
       ELSE IF ~response.ok THEN handleGenerateVideo_catch(j, FetchFailedError(response.statusText))
       ELSE /\ videoUrl' = VideoUrlOf(videoJobs[j].animalName)
            /\ videoJobs' = RemoveAt(videoJobs, j)
            /\ UNCHANGED <<isVideoLoading, videoError, showVideoApiKeyPrompt, entityVars,
                           fetchVars, voiceVars, summaryVars, searches, summaries>>
generateAnimalVideo_fetched(j, response) ==
    /\ videoJobs[j].pc = "fetch"
    /\ IF response.kind = "reject" THEN handleGenerateVideo_catch(j, response.err)
       ELSE IF ~response.ok THEN handleGenerateVideo_catch(j, FetchFailedError(response.statusText))
       ELSE /\ videoUrl' = VideoUrlOf(videoJobs[j].animalName)
            /\ isVideoLoading' = FALSE
            /\ videoJobs' = RemoveAt(videoJobs, j)
            /\ UNCHANGED <<videoError, showVideoApiKeyPrompt, entityVars, fetchVars,
                           voiceVars, summaryVars, searches, summaries>>

FetchResponses ==
    { [kind |-> "reject", err |-> ErrorOf(<<"Failed to fetch">>)],
      [kind |-> "response", ok |-> FALSE, statusText |-> "Forbidden"],
      [kind |-> "response", ok |-> TRUE, statusText |-> "OK"] }

\* line 628: the Generate Video button is rendered with a primary animal and
\* no comparison animal, when no video, job or video error is shown, and is
\* disabled while a search is loading (lines 546, 578, 593-634)
generateVideoClick ==
    /\ primaryAnimal # Null /\ comparisonAnimal = Null
    /\ ~isVideoLoading /\ videoError = Null /\ videoUrl = Null /\ ~isLoading
    /\ \E hasCredentialCheck \in BOOLEAN : handleGenerateVideo(hasCredentialCheck)

\* line 621: Hide Video
hideVideoClick ==
    /\ primaryAnimal # Null /\ comparisonAnimal = Null
    /\ ~isVideoLoading /\ videoError = Null /\ videoUrl # Null
    /\ videoUrl' = Null
    /\ UNCHANGED <<isVideoLoading, videoError, showVideoApiKeyPrompt, entityVars,
                   fetchVars, voiceVars, summaryVars, pendingVars>>

\* handleGenerateVideo called whatever is rendered: its own early return is
\* the only guard
generate ==
    \E hasCredentialCheck \in BOOLEAN : handleGenerateVideo(hasCredentialCheck)

\* the steps of the pending video jobs, failing with the given errors
VideoSteps(errors) ==
    \E j \in DOMAIN videoJobs :
        \/ \E hasKey \in BOOLEAN, hasOpenSelectKey \in BOOLEAN :
              handleGenerateVideo_hasKey(j, hasKey, hasOpenSelectKey)
        \/ \E err \in errors : handleGenerateVideo_hasKeyRejected(j, err)
        \/ handleGenerateVideo_keySelected(j)
        \/ \E err \in errors : handleGenerateVideo_keySelectRejected(j, err)
        \/ \E operationResponse \in Operations \cup {Null}, apiKey \in BOOLEAN :
              generateAnimalVideo_operation(j, operationResponse, apiKey)
        \/ \E err \in errors : generateAnimalVideo_operationRejected(j, err)
        \/ \E response \in FetchResponses : generateAnimalVideo_fetched(j, response)

(***************************************************************************)
(* The user's ways to start a search.                                      *)
(***************************************************************************)
\* lines 462 and 520: where a SearchBar is rendered
SearchBarShown ==
    \/ primaryAnimal = Null /\ ~isLoading
    \/ mode = "compare" /\ primaryAnimal # Null /\ comparisonAnimal = Null /\ ~isLoading

\* SearchBar.tsx lines 34-40 (the input and the submit button are disabled
\* while loading or listening, lines 49 and 79)
handleSubmit(term) ==
    /\ SearchBarShown
    /\ ~isVoiceListening
    /\ Truthy(Trim(term))
    /\ handleSearch(term, CurrentClosure)

\* lines 489-498
suggestedClick(animal) ==
    /\ primaryAnimal = Null /\ ~isLoading
    /\ handleSearch(animal, CurrentClosure)

(***************************************************************************)
(* lines 188-275: toggleVoiceSearch and the handlers of the capture        *)
(* session.                                                                *)
(***************************************************************************)
NotSupportedMessage == <<"Voice search is not supported in your browser.">>
CouldNotStartMessage ==
    <<"Could not start voice search. Please ensure no other app is using the microphone.">>

\* lines 236-255
SpeechErrorMessage_Generic(code) ==
    <<"An unexpected error occurred during voice search. Please try again.">>
SpeechErrorMessage(code) ==
    CASE code = "no-speech" ->
            <<"No speech detected. Please ensure your microphone is working and speak clearly.">>
      [] code = "not-allowed" ->
            <<"Microphone access denied. Please allow microphone access in your browser settings to use voice search.">>
      [] code = "network" ->
            <<"Voice search failed due to a network error. Please check your internet connection.">>
      [] code = "service-not-allowed" ->
            <<"Voice search service is unavailable. Please try again later or check your browser settings.">>
      [] code = "audio-capture" ->
            <<"Failed to capture audio from your microphone. Please ensure it's connected and working.">>
      [] code = "aborted" ->
            <<"Voice search was interrupted. Please try again.">>
      [] code = "bad-grammar" ->
            <<"Could not process your speech due to an issue. Please try speaking more clearly.">>
      [] code = "language-not-supported" ->
            <<"Voice search language not supported. Ensure your browser's language setting is compatible (e.g., English US).">>
      [] OTHER ->
            <<"An unexpected error occurred during voice search. Please try again.">>

SpeechErrorCodes ==
    { "no-speech", "not-allowed", "network", "service-not-allowed", "audio-capture",
      "aborted", "bad-grammar", "language-not-supported", "phrases-not-supported" }

CommonSpeechErrorCodes == { "no-speech" }

\* lines 197-260: the session is constructed on the first activation only
ConstructedRef_EveryActivation == [handleSearch |-> CurrentClosure]
ConstructedRef == IF recognitionRef = Null THEN [handleSearch |-> CurrentClosure]
                  ELSE recognitionRef

\* lines 188-275; the microphone button belongs to the SearchBar and is
\* disabled while loading (SearchBar.tsx lines 61-75).  supported: the host
\* has a SpeechRecognition constructor; startThrows: start() throws although
\* the session is idle (it always throws when the session is not idle)
toggleVoiceSearch(supported, startThrows) ==
    /\ SearchBarShown
    /\ IF ~supported
       THEN /\ voiceSearchError' = NotSupportedMessage
            /\ latestVoiceSearchText' = voiceSearchText
            /\ UNCHANGED <<isVoiceListening, voiceSearchText, recognitionRef, recognition>>
       ELSE /\ recognitionRef' = ConstructedRef
            /\ IF isVoiceListening
               THEN /\ recognition' = Stopped(recognition)
                    /\ latestVoiceSearchText' = voiceSearchText
                    /\ UNCHANGED <<isVoiceListening, voiceSearchText, voiceSearchError>>
               ELSE /\ voiceSearchText' = <<>>
                    /\ latestVoiceSearchText' = <<>>
                    /\ IF startThrows \/ recognition # "inactive"
                       THEN /\ voiceSearchError' = CouldNotStartMessage
                            /\ isVoiceListening' = FALSE
                            /\ recognition' = recognition
                       ELSE /\ voiceSearchError' = Null
                            /\ recognition' = "starting"
                            /\ isVoiceListening' = isVoiceListening
    /\ UNCHANGED <<entityVars, fetchVars, videoVars, summaryVars, pendingVars>>

\* lines 203-207
recognition_onstart_KeepsError ==
    /\ recognition = "starting"
    /\ recognition' = "active"
    /\ isVoiceListening' = TRUE
    /\ voiceSearchText' = <<>>
    /\ UNCHANGED <<voiceSearchError, latestVoiceSearchText, recognitionRef, entityVars, fetchVars,
                   videoVars, summaryVars, pendingVars>>
recognition_onstart ==
    /\ recognition = "starting"
    /\ recognition' = "active"
    /\ isVoiceListening' = TRUE
    /\ voiceSearchError' = Null
    /\ voiceSearchText' = <<>>
    /\ UNCHANGED <<latestVoiceSearchText, recognitionRef, entityVars, fetchVars, videoVars,
                   summaryVars, pendingVars>>

\* lines 209-222
recognition_onresult(results) ==
    /\ recognition \in {"active", "stopping"}
    /\ voiceSearchText' = EventText(results)
    /\ UNCHANGED <<latestVoiceSearchText, isVoiceListening, voiceSearchError, recognitionRef, recognition,
                   entityVars, fetchVars, videoVars, summaryVars, pendingVars>>

\* lines 224-231: handleSearch is the instance the session was constructed with
recognition_onend ==
    /\ recognition \in {"active", "stopping", "errored"}
    /\ recognition' = "inactive"
    /\ isVoiceListening' = FALSE
    /\ voiceSearchText' = <<>>
    /\ IF Truthy(Trim(latestVoiceSearchText))
       THEN handleSearch_start(Trim(latestVoiceSearchText), recognitionRef.handleSearch)
       ELSE UNCHANGED <<voiceSearchError, entityVars, fetchVars, videoVars, summaryVars,
                        pendingVars>>
    /\ UNCHANGED <<latestVoiceSearchText, recognitionRef>>

\* lines 233-259
recognition_onerror(code) ==
    /\ recognition \in {"starting", "active", "stopping"}
    /\ recognition' = "errored"
    /\ isVoiceListening' = FALSE
    /\ voiceSearchError' = SpeechErrorMessage(code)
    /\ voiceSearchText' = <<>>
    /\ UNCHANGED <<latestVoiceSearchText, recognitionRef, entityVars, fetchVars, videoVars,
                   summaryVars, pendingVars>>

\* lines 122-125: the effect that copies voiceSearchText to the ref.  It is a
\* passive effect: after a handler of the capture session (not a React event)
\* has set voiceSearchText, it runs in a later task, and the session's next
\* event may be delivered before it.  After a click the render and its
\* effects are flushed before the next event, so toggleVoiceSearch and reset
\* leave the ref equal to voiceSearchText.
latestVoiceSearchText_effect ==
    /\ latestVoiceSearchText # voiceSearchText
    /\ latestVoiceSearchText' = voiceSearchText
    /\ UNCHANGED <<isVoiceListening, voiceSearchText, voiceSearchError, recognitionRef,
                   recognition, entityVars, fetchVars, videoVars, summaryVars, pendingVars>>

\* the steps of the capture session
VoiceSteps(codes) ==
    \/ \E supported \in BOOLEAN, startThrows \in BOOLEAN :
          toggleVoiceSearch(supported, startThrows)
    \/ recognition_onstart
    \/ \E results \in SpeechEvents : recognition_onresult(results)
    \/ recognition_onend
    \/ \E code \in codes : recognition_onerror(code)
    \/ latestVoiceSearchText_effect

\* the steps every specification has: searches, comparison summaries, the mode
CoreSteps(lookups) ==
    \/ \E term \in SearchTerms : handleSubmit(term)
    \/ \E animal \in SuggestedAnimals : suggestedClick(animal)
    \/ \E i \in DOMAIN searches, lookup \in lookups : handleSearch_resume(i, lookup)
    \/ \E i \in DOMAIN summaries : \E response \in SummaryResponses(summaries[i]) :
          fetchComparisonSummary_resume(i, response)
    \/ toggleMode
    \/ reset
    \/ clearComparison

\* searches, summaries, the mode and the video jobs
Next ==
    \/ CoreSteps(CommonLookups)
    \/ generateVideoClick
    \/ hideVideoClick
    \/ VideoSteps(CommonProviderErrors)

Spec == Init /\ [][Next]_vars

\* the provider answers with which a search succeeds
SucceedingLookups == { lookup \in CommonLookups : lookup.result.ok }

\* searches that succeed, summaries, the mode and the capture session
NextVoice ==
    \/ CoreSteps(SucceedingLookups)
    \/ VoiceSteps(CommonSpeechErrorCodes)

SpecVoice == Init /\ [][NextVoice]_vars

\* searches with every answer of the lookup providers
NextLookup == CoreSteps(Lookups)

SpecLookup == Init /\ [][NextLookup]_vars

\* searches answered with a profile of every taxon
NextTaxa == CoreSteps(TaxaLookups)

SpecTaxa == Init /\ [][NextTaxa]_vars

\* the capture session with every event and every error code, the search
\* bar, searches that succeed, and reset
NextSpeech ==
    \/ \E supported \in BOOLEAN, startThrows \in BOOLEAN :
          toggleVoiceSearch(supported, startThrows)
    \/ recognition_onstart
    \/ \E results \in SessionEvents : recognition_onresult(results)
    \/ recognition_onend
    \/ \E code \in SpeechErrorCodes : recognition_onerror(code)
    \/ latestVoiceSearchText_effect
    \/ \E term \in TypedTerms : handleSubmit(term)
    \/ \E animal \in SuggestedAnimals : suggestedClick(animal)
    \/ \E i \in DOMAIN searches, lookup \in SucceedingLookups : handleSearch_resume(i, lookup)
    \/ reset

SpecSpeech == Init /\ [][NextSpeech]_vars

\* the video operation called directly, with every failure of its providers;
\* the searches start from the suggestions and succeed
NextVideo ==
    \/ \E animal \in SuggestedAnimals : suggestedClick(animal)
    \/ \E i \in DOMAIN searches, lookup \in SucceedingLookups : handleSearch_resume(i, lookup)
    \/ toggleMode
    \/ reset
    \/ generate
    \/ hideVideoClick
    \/ VideoSteps(ProviderErrors)

SpecVideo == Init /\ [][NextVideo]_vars

\* every pending call of a video job is answered in the end: the provider
\* answers or rejects and the timer of the poll loop fires.  A job gets at
\* most MaxPolls answers that are null or not done, so the provider reports
\* the job done, or a call fails, in the end.
FairSpecVideo == SpecVideo /\ WF_vars(VideoSteps(ProviderErrors))

(***************************************************************************)
(* Properties of the search: placement, normalisation, rejection.          *)
(***************************************************************************)
\* C1: a search started in Explore mode whose lookup succeeds leaves the
\* returned subject in the primary slot and the comparison slot empty.
C1_ExploreSearchFillsPrimary ==
    [][\A i \in DOMAIN searches, lookup \in CommonLookups :
          ( /\ handleSearch_resume(i, lookup)
            /\ Truthy(Trim(searches[i].term))
            /\ searches[i].startedIn.mode = "explore"
            /\ lookup.result.ok )
          => /\ primaryAnimal' = lookup.result.value
             /\ primaryAnimal'.name = lookup.textResponse.profile.name
             /\ comparisonAnimal' = Null]_vars

\* C2: a successful search started in Compare mode with an empty primary slot
\* fills the primary slot and leaves the comparison slot unchanged; started in
\* Compare mode with a filled primary slot and an empty comparison slot it
\* fills the comparison slot and leaves the primary slot unchanged.
C2_CompareSearchPlacement ==
    [][\A i \in DOMAIN searches, lookup \in CommonLookups :
          ( /\ handleSearch_resume(i, lookup)
            /\ searches[i].startedIn.mode = "compare"
            /\ lookup.result.ok )
          => /\ ~searches[i].startedIn.primaryAnimal
                => /\ primaryAnimal' = lookup.result.value
                   /\ comparisonAnimal' = comparisonAnimal
             /\ ( /\ searches[i].startedIn.primaryAnimal
                  /\ ~searches[i].startedIn.comparisonAnimal )
                => /\ comparisonAnimal' = lookup.result.value
                   /\ primaryAnimal' = primaryAnimal]_vars

\* C3: every animal held in the primary or the comparison slot has
\* stats.reach equal to the length of its distribution, whatever reach the
\* provider supplied.
C3_ReachIsDistributionLength ==
    \A animal \in {primaryAnimal, comparisonAnimal} \ {Null} :
        animal.stats.reach = Len(animal.distribution)

\* a slot holds an animal whose provider-supplied reach (0 or 99) was wrong
C3_Witness ==
    /\ primaryAnimal # Null /\ Len(primaryAnimal.distribution) = MaxDist
    /\ primaryAnimal.stats.reach = MaxDist
    /\ comparisonAnimal # Null /\ Len(comparisonAnimal.distribution) = 1

\* the phylum or the class contains an excluded term, compared without case
ContainsExcludedTerm(profile) ==
    LET Lowered(s) == [k \in DOMAIN s |-> LowerChar(s[k])]
    IN  \E term \in invertebrateLatinTerms \cup invertebrateCommonKeywords :
            \/ Includes(Lowered(profile.phylum), term)
            \/ Includes(Lowered(profile.class), term)

\* the provider answers whose draft is in an excluded taxon
ExcludedLookups ==
    { lookup \in Lookups : /\ lookup.textResponse.kind = "json"
                           /\ ContainsExcludedTerm(lookup.textResponse.profile) }

\* C4: a lookup whose phylum or class contains an excluded term, in any case,
\* ends the search with the rejection message in error and places nothing in
\* the primary or the comparison slot.
C4_ExcludedTaxaAreRejected ==
    [][\A i \in DOMAIN searches, lookup \in ExcludedLookups :
          handleSearch_resume(i, lookup)
          => /\ error' = DomainRejectedMessage(searches[i].term)
             /\ primaryAnimal' = primaryAnimal
             /\ comparisonAnimal' = comparisonAnimal]_vars

\* a search was rejected while an animal was shown
C4_Witness ==
    /\ \E term \in AllTerms : error = DomainRejectedMessage(term)
    /\ primaryAnimal # Null
    /\ ~isLoading

\* the message the catch block is to store for a failed lookup
ClassifiedMessage(lookup) ==
    CASE lookup.textResponse.kind = "json" -> DomainRejectedMessage(lookup.term)
      [] lookup.textResponse.kind = "reject" /\ lookup.textResponse.message = XhrMessage ->
            NetworkIssueMessage
      [] OTHER -> UnknownErrorMessage

\* the provider answers that make fetchAnimalData fail with an error, a
\* thrown value that has a message
FailedLookups ==
    { lookup \in Lookups : ~lookup.result.ok /\ "message" \in DOMAIN lookup.result }

C6_ExploreHasNoComparison ==
    mode = "explore" => comparisonAnimal = Null

\* C7: a video URL that is stored was generated for the animal now held in
\* the primary slot, in every reachable state.
C7_VideoBelongsToPrimary ==
    videoUrl # Null =>
        primaryAnimal # Null /\ videoUrl = VideoUrlOf(primaryAnimal.name)

\* the summary the provider computes for a pair of animals
SummaryOf(animal1, animal2) == <<"Compare ", animal1.name, " and ", animal2.name>>

\* C8: a comparison summary that is stored was computed from the pair of
\* animals now held in the primary and the comparison slot, in every
\* reachable state.
C8_SummaryBelongsToPair ==
    comparisonSummaryData # Null =>
        /\ primaryAnimal # Null /\ comparisonAnimal # Null
        /\ comparisonSummaryData.comparisonSummary = SummaryOf(primaryAnimal, comparisonAnimal)

\* C9: whenever a part of the summary state is set (data, loading or error),
\* the mode is Compare and both slots are filled, in every reachable state.
C9_SummaryOnlyForComparedPair ==
    ( \/ comparisonSummaryData # Null
      \/ isComparisonSummaryLoading
      \/ comparisonSummaryError # Null )
    => mode = "compare" /\ primaryAnimal # Null /\ comparisonAnimal # Null

\* C10: toggling the mode from Compare to Explore leaves the comparison slot
\* empty and the summary state and the video state cleared, whatever they
\* held before.
C10_ToggleToExploreClears ==
    [][(toggleMode /\ mode = "compare")
       => /\ mode' = "explore"
          /\ comparisonAnimal' = Null
          /\ comparisonSummaryData' = Null
          /\ ~isComparisonSummaryLoading'
          /\ comparisonSummaryError' = Null
          /\ videoUrl' = Null
          /\ ~isVideoLoading'
          /\ videoError' = Null
          /\ ~showVideoApiKeyPrompt']_vars

\* Explore mode with an animal shown, nothing compared and all summary and
\* video state clear, while the summary request of the comparison that was
\* left and a video job started before it are still in flight
C10_Witness ==
    /\ mode = "explore" /\ primaryAnimal # Null /\ comparisonAnimal = Null
    /\ comparisonSummaryData = Null /\ ~isComparisonSummaryLoading
    /\ comparisonSummaryError = Null
    /\ videoUrl = Null /\ ~isVideoLoading /\ videoError = Null /\ ~showVideoApiKeyPrompt
    /\ summaries # <<>> /\ videoJobs # <<>>

(***************************************************************************)
(* Properties of the video operation.                                      *)
(***************************************************************************)
\* C11: handleGenerateVideo called while isVideoLoading is true changes no
\* state variable and submits no second job.
C11_GenerateWhileLoadingIsNoOp ==
    [][\A hasCredentialCheck \in BOOLEAN :
          (isVideoLoading /\ handleGenerateVideo(hasCredentialCheck))
          => UNCHANGED vars]_vars

\* a job is loading for the animal shown and a second call could be accepted
C11_Witness ==
    /\ isVideoLoading /\ primaryAnimal # Null
    /\ videoJobs # <<>> /\ Pending < MaxPending

\* the failures whose message is the structured payload with the given code
StructuredFailures(code) ==
    { err \in ProviderErrors :
        \E message \in {"x", ""} : err = ErrorOf(ApiErrorText(code, message)) }

\* C12: a generation failure with the structured payload of code 404 stores
\* the key-required message and shows the key prompt; one of code 429 stores
\* the quota message and shows no key prompt.
C12_StructuredFailureMessages ==
    [][\A j \in DOMAIN videoJobs :
          /\ \A err \in StructuredFailures("404") :
                handleGenerateVideo_catch(j, err)
                => videoError' = KeyRequiredMessage /\ showVideoApiKeyPrompt'
          /\ \A err \in StructuredFailures("429") :
                handleGenerateVideo_catch(j, err)
                => videoError' = QuotaExceededMessage /\ ~showVideoApiKeyPrompt']_vars

\* a job failed with the payload of code 404
C12_Witness ==
    /\ videoError = KeyRequiredMessage /\ showVideoApiKeyPrompt
    /\ ~isVideoLoading /\ videoJobs = <<>>

(***************************************************************************)
(* Properties of the capture session.                                      *)
(***************************************************************************)
\* C13: when the capture session ends, listening becomes false and the
\* transcript is cleared; if the transcript was non-empty after trimming,
\* exactly one search is started, with the trimmed transcript as its term,
\* and otherwise no search is started.
C13_SessionEndSearchesTranscript ==
    [][recognition_onend
       => /\ ~isVoiceListening'
          /\ voiceSearchText' = <<>>
          /\ IF Truthy(Trim(voiceSearchText))
             THEN /\ Len(searches') = Len(searches) + 1
                  /\ SubSeq(searches', 1, Len(searches)) = searches
                  /\ searches'[Len(searches')].term = Trim(voiceSearchText)
             ELSE searches' = searches]_vars

(***************************************************************************)
(* Properties of the failure paths.                                        *)
(***************************************************************************)
\* the values a call of the video path may fail with
VideoFailures ==
    ProviderErrors
    \cup { NoLinkError, NoApiKeyError }
    \cup { FetchFailedError(response.statusText) :
             response \in { r \in FetchResponses : r.kind = "response" } }

\* C14: every failure inside a search, a video generation, a summary request
\* or the start of a capture session is stored as a message in the error
\* slot of that operation, whatever value the provider rejects with.
C14_FailuresAreStored ==
    [][/\ \A i \in DOMAIN searches, lookup \in CommonLookups :
             (handleSearch_resume(i, lookup) /\ ~lookup.result.ok) => error' # Null
       /\ \A j \in DOMAIN videoJobs, err \in VideoFailures :
             handleGenerateVideo_catch(j, err) => videoError' # Null
       /\ \A i \in DOMAIN summaries : \A response \in SummaryResponses(summaries[i]) :
             ( /\ fetchComparisonSummary_resume(i, response)
               /\ ~generateComparisonSummary(response).ok )
             => comparisonSummaryError' # Null
       /\ (~isVoiceListening /\ toggleVoiceSearch(TRUE, TRUE))
             => voiceSearchError' # Null]_vars


(***************************************************************************)
(* C15: videoJob.loading is false when generate() returns, on every exit   *)
(* path.  A call returns either at the early return of line 288, leaving   *)
(* every variable as it was, or by ending its job.                         *)
(***************************************************************************)
\* C15 as stated, for the exit at the early return: the call that returns
\* there changes nothing, so loading is false after it exactly when loading
\* is false in the state that refuses the call
C15_LoadingFalseAtEveryExit ==
    GenerateBlocked(primaryAnimal, isVideoLoading) => ~isVideoLoading

\* C15 for the calls that passed line 288: every step that ends a job
\* (success, a caught failure, the missing key tool) leaves loading false
C15_LoadingFalseWhenJobEnds ==
    [][Len(videoJobs') < Len(videoJobs) => ~isVideoLoading']_vars

C15_Witness ==
    /\ videoUrl # Null /\ ~isVideoLoading /\ videoError = Null
    /\ primaryAnimal # Null /\ videoJobs = <<>>


(***************************************************************************)
(* C16: a step in which a search, a generation job or a summary request    *)
(* fails issues no provider request: it ends the failed call and starts    *)
(* no search, no job and no summary request, and polls no job.             *)
(***************************************************************************)
\* each disjunct opens with what its catch and finally blocks always leave
FailedCompletion ==
    \/ /\ ~isLoading'
       /\ \E i \in DOMAIN searches, lookup \in CommonLookups :
             ~lookup.result.ok /\ handleSearch_resume(i, lookup)
    \/ /\ ~isVideoLoading' /\ videoError' # Null
       /\ \E j \in DOMAIN videoJobs :
             \/ \E err \in CommonProviderErrors \cup {NoLinkError, NoApiKeyError} :
                   handleGenerateVideo_catch(j, err)
             \/ handleGenerateVideo_hasKey(j, FALSE, FALSE)
             \/ \E response \in FetchResponses :
                   (response.kind = "reject" \/ ~response.ok)
                   /\ generateAnimalVideo_fetched(j, response)
    \/ /\ ~isComparisonSummaryLoading' /\ comparisonSummaryError' # Null
       /\ \E i \in DOMAIN summaries :
             \E response \in SummaryResponses(summaries[i]) :
                ~generateComparisonSummary(response).ok
                /\ fetchComparisonSummary_resume(i, response)

\* the step ends one call and starts none, and every job left is as it was
EndsOneCallOnly ==
    /\ Len(searches') + Len(summaries') + Len(videoJobs') = Pending - 1
    /\ Len(searches') <= Len(searches)
    /\ Len(summaries') <= Len(summaries)
    /\ Len(videoJobs') <= Len(videoJobs)
    /\ \A j \in DOMAIN videoJobs' :
          \E k \in DOMAIN videoJobs : videoJobs'[j] = videoJobs[k]

C16_NoAutomaticRetry == [][EndsOneCallOnly \/ ~FailedCompletion]_vars

C16_Witness ==
    /\ comparisonSummaryError # Null /\ comparisonSummaryData = Null
    /\ mode = "compare" /\ primaryAnimal # Null /\ comparisonAnimal # Null
    /\ ~isLoading /\ ~isComparisonSummaryLoading
    /\ searches = <<>> /\ summaries = <<>> /\ videoJobs = <<>>


(***************************************************************************)
(* C17: a lookup whose profile is accepted while the image model rejects   *)
(* or answers without an inline image still ends the search successfully:  *)
(* the animal is placed in a slot without imageUrl and error is null.      *)
(***************************************************************************)
\* the accepted profiles whose image request gave no image
ImagelessLookups ==
    { lookup \in Lookups :
        /\ lookup.textResponse.kind = "json"
        /\ ~ContainsExcludedTerm(lookup.textResponse.profile)
        /\ \/ lookup.imageResponse.kind = "reject"
           \/ \A k \in DOMAIN lookup.imageResponse.parts :
                 "inlineData" \notin DOMAIN lookup.imageResponse.parts[k] }

C17_ImageFailureKeepsSearch ==
    [][\A i \in DOMAIN searches, lookup \in ImagelessLookups :
          handleSearch_resume(i, lookup)
          => /\ lookup.result.ok
             /\ \E animal \in {primaryAnimal', comparisonAnimal'} \ {Null} :
                   /\ animal.name = lookup.textResponse.profile.name
                   /\ animal.imageUrl = Null
             /\ \A animal \in {primaryAnimal', comparisonAnimal'} \ {primaryAnimal, comparisonAnimal, Null} :
                   animal.imageUrl = Null
             /\ error' = Null
             /\ ~isLoading']_vars

\* an animal with an image and an animal without one are shown side by side
C17_Witness ==
    /\ primaryAnimal # Null /\ primaryAnimal.imageUrl # Null
    /\ comparisonAnimal # Null /\ comparisonAnimal.imageUrl = Null
    /\ error = Null /\ ~isLoading


(***************************************************************************)
(* C18: the search a capture session starts when it ends applies the       *)
(* placement policy of the mode and the primary animal current at that     *)
(* moment, also when the session was constructed under another mode or     *)
(* primary animal.                                                         *)
(***************************************************************************)
C18_VoiceSearchUsesCurrentPolicy ==
    [][(recognition_onend /\ Len(searches') > Len(searches))
          => LET closure == searches'[Len(searches')].closure
             IN  \A lookup \in SucceedingLookups :
                    /\ PlacedPrimary(closure, lookup.result.value, primaryAnimal)
                          = PlacedPrimary(CurrentClosure, lookup.result.value, primaryAnimal)
                    /\ PlacedComparison(closure, lookup.result.value, comparisonAnimal)
                          = PlacedComparison(CurrentClosure, lookup.result.value,
                                             comparisonAnimal)]_vars


(***************************************************************************)
(* C19: overlapping searches are applied in the order they complete.       *)
(* searches holds the pending calls in the order they were started.  A     *)
(* call overlaps another when a second call is pending with it, or when    *)
(* isLoading is already false at its completion (a call started after it   *)
(* has completed).  Whatever its position, its completion places its own   *)
(* subject in the slot its policy names and leaves the other calls         *)
(* pending: there is no token and no cancellation.                         *)
(***************************************************************************)
C19_CompletionOrderApplies ==
    [][\A i \in DOMAIN searches, lookup \in SucceedingLookups :
          ((Len(searches) > 1 \/ ~isLoading) /\ handleSearch_resume(i, lookup))
          => /\ IF searches[i].closure.mode = "explore" \/ ~searches[i].closure.primaryAnimal
                THEN primaryAnimal' = lookup.result.value
                ELSE comparisonAnimal' = lookup.result.value
             /\ Len(searches') = Len(searches) - 1
             /\ \A k \in DOMAIN searches \ {i} :
                   \E m \in DOMAIN searches' : searches'[m] = searches[k]]_vars

\* the search started second has completed and filled the primary slot; the
\* search started first, from a suggestion, is still pending
C19_Witness ==
    /\ Len(searches) = 1 /\ searches[1].term \in SuggestedAnimals
    /\ ~isLoading /\ primaryAnimal # Null


(***************************************************************************)
(* C20: the step that starts a search sets isLoading and clears error,     *)
(* the video job (url, loading, error, credential prompt) and the voice    *)
(* error; the step that completes a search, by success or failure, clears  *)
(* isLoading.                                                              *)
(***************************************************************************)
C20_SearchStartClearsState ==
    [][/\ Len(searches') > Len(searches)
          => /\ isLoading' /\ error' = Null
             /\ videoUrl' = Null /\ ~isVideoLoading'
             /\ videoError' = Null /\ ~showVideoApiKeyPrompt'
             /\ voiceSearchError' = Null
       /\ Len(searches') < Len(searches) => ~isLoading']_vars


(***************************************************************************)
(* C21: the completion of an enabled summary request stores, on success,   *)
(* the returned summary with loading false and error null; on failure,     *)
(* unparseable output included, it stores the generic message with loading *)
(* false and no summary data.                                              *)
(***************************************************************************)
C21_SummaryCompletionStores ==
    [][\A i \in DOMAIN summaries :
          \A response \in SummaryResponses(summaries[i]) :
             fetchComparisonSummary_resume(i, response)
             => IF response.kind = "json"
                THEN /\ comparisonSummaryData' = response.value
                     /\ ~isComparisonSummaryLoading'
                     /\ comparisonSummaryError' = Null
                ELSE /\ comparisonSummaryError' = SummaryFailedMessage
                     /\ ~isComparisonSummaryLoading'
                     /\ comparisonSummaryData' = Null]_vars


(***************************************************************************)
(* C22: a step that changes (mode, primary, comparison) to a triple with   *)
(* the mode not Compare or a slot empty leaves the summary data null,      *)
(* loading false and error null, and issues no summary request.            *)
(***************************************************************************)
C22_DisabledRunClears ==
    [][(entityVars' # entityVars /\ ~SummaryEnabled(mode', primaryAnimal', comparisonAnimal'))
          => /\ comparisonSummaryData' = Null
             /\ ~isComparisonSummaryLoading'
             /\ comparisonSummaryError' = Null
             /\ Len(summaries') <= Len(summaries)]_vars

\* the comparison was cleared while the request of the pair was pending
C22_Witness ==
    /\ mode = "compare" /\ primaryAnimal # Null /\ comparisonAnimal = Null
    /\ summaries # <<>>
    /\ comparisonSummaryData = Null /\ ~isComparisonSummaryLoading
    /\ comparisonSummaryError = Null


(***************************************************************************)
(* C23: the message and the prompt flag the catch block stores for a       *)
(* failure that is an Error, by the code of its structured message; a      *)
(* message that is not structured, or has no error field, is embedded in   *)
(* the generic message; the prompt is shown for code 404 alone.            *)
(***************************************************************************)
StructuredCodes == {"400", "403", "404", "429", "500", "503", "418", "409"}

\* the failures of ProviderErrors whose message is structured with this code
FailuresWithCode(code) ==
    { err \in ProviderErrors :
        \E message \in {"x", ""} : err = ErrorOf(ApiErrorText(code, message)) }

\* the errors whose message is no structured failure
UnstructuredFailures ==
    { err \in VideoFailures :
        /\ err.isError
        /\ \A code \in StructuredCodes : err \notin FailuresWithCode(code) }

\* the raw message of a structured failure
RawMessage(err) == err.message[4]

C23_MessageExpected(err, text) ==
    CASE err \in FailuresWithCode("404") -> text = KeyRequiredMessage
      [] err \in FailuresWithCode("400") ->
            text = <<"Failed to generate video: Bad request. Please check your prompt. (Details: ",
                     RawMessage(err), ")">>
      [] err \in FailuresWithCode("403") ->
            text = <<"Permission denied for video generation. Ensure the Veo API is enabled in your Google Cloud Project. (Details: ",
                     RawMessage(err), ")">>
      [] err \in FailuresWithCode("429") -> text = QuotaExceededMessage
      [] err \in FailuresWithCode("500") \cup FailuresWithCode("503") ->
            text = ServiceUnavailableMessage
      [] err \in FailuresWithCode("418") \cup FailuresWithCode("409") ->
            /\ text[1] = "Video generation failed with API error: "
            /\ RawMessage(err) # "" => text[2] = RawMessage(err)
      [] err \in UnstructuredFailures ->
            text = <<"Video generation failed: ">> \o err.message
      [] OTHER -> TRUE

ClassifiedFailures ==
    UnstructuredFailures \cup UNION { FailuresWithCode(code) : code \in StructuredCodes }

C23_ExtendedClassifier ==
    [][\A j \in DOMAIN videoJobs, err \in ClassifiedFailures :
          handleGenerateVideo_catch(j, err)
          => /\ C23_MessageExpected(err, videoError')
             /\ showVideoApiKeyPrompt' = (err \in FailuresWithCode("404"))]_vars

C23_Witness ==
    /\ videoError = ServiceUnavailableMessage /\ ~showVideoApiKeyPrompt
    /\ ~isVideoLoading /\ videoUrl = Null /\ primaryAnimal # Null


(***************************************************************************)
(* C24: a lookup whose phylum, class or classification contains a term of  *)
(* the exclusion list, Latin or colloquial, in any case, ends the search   *)
(* with the rejection message and places nothing.                          *)
(***************************************************************************)
\* a term of either list is inside one of the three fields
AnyFieldHasExcludedTerm(profile) ==
    LET Lowered(s) == [k \in DOMAIN s |-> LowerChar(s[k])]
    IN  \E term \in invertebrateLatinTerms \cup invertebrateCommonKeywords :
            \/ Includes(Lowered(profile.phylum), term)
            \/ Includes(Lowered(profile.class), term)
            \/ Includes(Lowered(profile.classification), term)

AnyFieldExcludedLookups ==
    { lookup \in TaxaLookups : /\ lookup.textResponse.kind = "json"
                           /\ AnyFieldHasExcludedTerm(lookup.textResponse.profile) }

C24_EveryTermOnEveryField ==
    [][\A i \in DOMAIN searches, lookup \in AnyFieldExcludedLookups :
          handleSearch_resume(i, lookup)
          => /\ error' = DomainRejectedMessage(searches[i].term)
             /\ primaryAnimal' = primaryAnimal
             /\ comparisonAnimal' = comparisonAnimal]_vars


C26_NoPickerFailsAtOnce ==
    [][\A j \in DOMAIN videoJobs :
          (videoJobs[j].pc = "hasSelectedApiKey" /\ handleGenerateVideo_hasKey(j, FALSE, FALSE))
          => /\ videoJobs' = RemoveAt(videoJobs, j)
             /\ videoError' = KeyToolUnavailableMessage
             /\ ~showVideoApiKeyPrompt'
             /\ videoUrl' = Null
             /\ ~isVideoLoading']_vars


(***************************************************************************)
(* C27: a null answer to a status query leaves the job pending with the    *)
(* operation it already held and writes no video state: the job queries    *)
(* again.  A job leaves the poll loop only when an answer reports done or  *)
(* a call throws.                                                          *)
(***************************************************************************)
C27_NullPollIsRetried ==
    [][\A j \in DOMAIN videoJobs :
          /\ \A apiKey \in BOOLEAN :
                generateAnimalVideo_operation(j, Null, apiKey)
                => /\ Len(videoJobs') = Len(videoJobs)
                   /\ videoJobs'[j].pc = "getVideosOperation"
                   /\ videoJobs'[j].operation = videoJobs[j].operation
                   /\ videoJobs'[j].polls = videoJobs[j].polls + 1
                   /\ UNCHANGED videoVars
          /\ (videoJobs[j].pc = "getVideosOperation" /\ Len(videoJobs') >= Len(videoJobs))
                => /\ videoJobs'[j].pc \in {"getVideosOperation", "fetch"}
                   /\ videoJobs'[j].pc = "getVideosOperation"
                        => ~videoJobs'[j].operation.done]_vars

\* a job whose status queries were all answered holds an operation that is
\* not done and goes on loading
C27_Witness ==
    \E j \in DOMAIN videoJobs :
        /\ videoJobs[j].pc = "getVideosOperation" /\ videoJobs[j].polls = MaxPolls
        /\ videoJobs[j].operation # Null /\ isVideoLoading /\ videoError = Null


(***************************************************************************)
(* C28: a job whose operation is done without a download link, or whose    *)
(* download answers with a status that is not ok, ends in failure:         *)
(* videoUrl is null, videoError is set and isVideoLoading is false.        *)
(* videoUrl becomes non-null only in the step of a job that has its link   *)
(* and whose download succeeds.                                            *)
(***************************************************************************)
C28_NoLinkOrFailedDownloadFails ==
    [][/\ \A j \in DOMAIN videoJobs :
             ( \/ \E apiKey \in BOOLEAN :
                     generateAnimalVideo_operation(j, [done |-> TRUE, uri |-> Null], apiKey)
               \/ \E response \in FetchResponses :
                     /\ response.kind = "response" /\ ~response.ok
                     /\ generateAnimalVideo_fetched(j, response) )
             => /\ videoUrl' = Null
                /\ videoError' # Null
                /\ ~isVideoLoading'
                /\ videoJobs' = RemoveAt(videoJobs, j)
       /\ (videoUrl' # Null /\ videoUrl' # videoUrl)
             => \E j \in DOMAIN videoJobs :
                   /\ videoJobs[j].pc = "fetch"
                   /\ videoJobs' = RemoveAt(videoJobs, j)
                   /\ videoUrl' = VideoUrlOf(videoJobs[j].animalName)]_vars


(***************************************************************************)
(* C29: when every pending call of a job is answered in the end and the    *)
(* provider reports the job done, or a call fails, in the end, a job that  *)
(* set isVideoLoading leads to isVideoLoading false.  There is no timeout: *)
(* an answer that is null or not done leaves the job polling and           *)
(* isVideoLoading as it was.                                               *)
(***************************************************************************)
C29_AcceptedJobTerminates ==
    /\ isVideoLoading ~> ~isVideoLoading
    /\ [][\A j \in DOMAIN videoJobs :
             \A operationResponse \in {Null, [done |-> FALSE, uri |-> Null]}, apiKey \in BOOLEAN :
                generateAnimalVideo_operation(j, operationResponse, apiKey)
                => /\ isVideoLoading' = isVideoLoading
                   /\ Len(videoJobs') = Len(videoJobs)
                   /\ videoJobs'[j].pc = "getVideosOperation"]_vars

\* a job was answered not done as often as the bound allows, then done, and
\* is downloading its video while isVideoLoading is still true
C29_Witness ==
    /\ isVideoLoading
    /\ \E j \in DOMAIN videoJobs :
          videoJobs[j].pc = "fetch" /\ videoJobs[j].polls = MaxPolls


(***************************************************************************)
(* C30: the capture session is constructed at most once, by the first      *)
(* toggleVoiceSearch on a host with the capability; once recognitionRef    *)
(* holds a session every later step, activations included, keeps that same *)
(* session.                                                                *)
(***************************************************************************)
C30_SessionConstructedOnce ==
    [][/\ recognitionRef # Null => recognitionRef' = recognitionRef
       /\ recognitionRef = Null /\ recognitionRef' # Null
          => \E startThrows \in BOOLEAN : toggleVoiceSearch(TRUE, startThrows)]_vars

\* a later activation is starting the session that was constructed under an
\* earlier render: its handleSearch is no longer the current one
C30_Witness ==
    /\ recognitionRef # Null
    /\ recognitionRef.handleSearch # CurrentClosure
    /\ recognition = "starting"


(***************************************************************************)
(* C31: toggleVoiceSearch on a host with the capability: while listening   *)
(* it stops the session and starts nothing; while not listening it clears  *)
(* the transcript and then either starts the session with the voice error  *)
(* cleared or, when start() throws, stores the could-not-start message     *)
(* with listening false and keeps the session object.                      *)
(***************************************************************************)
C31_ToggleStopsOrStarts ==
    [][\A startThrows \in BOOLEAN :
          toggleVoiceSearch(TRUE, startThrows)
          => /\ recognitionRef' # Null
             /\ recognitionRef # Null => recognitionRef' = recognitionRef
             /\ searches' = searches
             /\ IF isVoiceListening
                THEN /\ recognition = "active" => recognition' = "stopping"
                     /\ recognition' # "starting"
                     /\ isVoiceListening' /\ voiceSearchText' = voiceSearchText
                     /\ voiceSearchError' = voiceSearchError
                ELSE /\ voiceSearchText' = <<>>
                     /\ IF startThrows \/ recognition # "inactive"
                        THEN /\ voiceSearchError' = CouldNotStartMessage
                             /\ ~isVoiceListening'
                             /\ recognition' = recognition
                        ELSE /\ voiceSearchError' = Null
                             /\ recognition' = "starting"]_vars

\* start() threw on the second activation: the message is stored and the
\* session constructed by the first activation is kept
C31_Witness ==
    /\ voiceSearchError = CouldNotStartMessage
    /\ ~isVoiceListening
    /\ recognitionRef # Null
    /\ recognition = "inactive"
    /\ primaryAnimal # Null


(***************************************************************************)
(* C32: the error handler of the capture session sets listening false,     *)
(* clears the transcript and stores the message of the error code: each of *)
(* the eight known codes has a message of its own, any other code has the  *)
(* generic message; the handler starts no search.                          *)
(***************************************************************************)
KnownSpeechErrorCodes ==
    { "no-speech", "not-allowed", "network", "service-not-allowed", "audio-capture",
      "aborted", "bad-grammar", "language-not-supported" }

GenericSpeechErrorMessage ==
    <<"An unexpected error occurred during voice search. Please try again.">>

C32_ErrorEventMapsCode ==
    [][\A code \in SpeechErrorCodes :
          recognition_onerror(code)
          => /\ ~isVoiceListening'
             /\ voiceSearchText' = <<>>
             /\ voiceSearchError' # Null
             /\ IF code \in KnownSpeechErrorCodes
                THEN /\ voiceSearchError' # GenericSpeechErrorMessage
                     /\ \A other \in KnownSpeechErrorCodes \ {code} :
                           voiceSearchError' # SpeechErrorMessage(other)
                ELSE voiceSearchError' = GenericSpeechErrorMessage
             /\ searches' = searches
             /\ isLoading' = isLoading]_vars

\* the session was interrupted: its message is shown and nothing is listening
C32_Witness ==
    /\ voiceSearchError = <<"Voice search was interrupted. Please try again.">>
    /\ recognition = "errored"
    /\ ~isVoiceListening
    /\ voiceSearchText = <<>>


(***************************************************************************)
(* C33: a recognition event concatenates its finalized segments into the   *)
(* transcript, so a segment finalized by an earlier event of the session   *)
(* is still the beginning of the transcript after a later event; an event  *)
(* without a finalized segment replaces the interim text and never extends *)
(* it.                                                                     *)
(***************************************************************************)
\* the texts an event leaves when one of its segments is final
FinalizedTexts == { Transcript(results, TRUE) : results \in SessionEvents } \ { <<>> }

IsPrefixOf(s, t) == Len(s) <= Len(t) /\ SubSeq(t, 1, Len(s)) = s

C33_FinalizedSegmentsAccumulate ==
    [][\A results \in SessionEvents :
          recognition_onresult(results)
          => /\ voiceSearchText \in FinalizedTexts
                => IsPrefixOf(voiceSearchText, voiceSearchText')
             /\ (voiceSearchText \notin FinalizedTexts /\ Transcript(results, TRUE) = <<>>)
                => voiceSearchText' = Transcript(results, FALSE)]_vars


(***************************************************************************)
(* C34: the start handler of the capture session sets listening true and   *)
(* clears the transcript and the voice error.  listening becomes true only *)
(* by the start handler, and becomes false only by the end handler, the    *)
(* error handler or reset (a failed start leaves it false).                *)
(***************************************************************************)
C34_IdleListeningIdle ==
    [][/\ recognition_onstart
          => isVoiceListening' /\ voiceSearchText' = <<>> /\ voiceSearchError' = Null
       /\ (~isVoiceListening /\ isVoiceListening') => recognition_onstart
       /\ (isVoiceListening /\ ~isVoiceListening')
          => \/ recognition_onend
             \/ \E code \in SpeechErrorCodes : recognition_onerror(code)
             \/ reset
       /\ \A startThrows \in BOOLEAN :
             (toggleVoiceSearch(TRUE, startThrows) /\ voiceSearchError' = CouldNotStartMessage)
             => ~isVoiceListening']_vars

\* the session is listening, with no voice error, while an animal is shown
C34_Witness ==
    /\ isVoiceListening
    /\ recognition = "active"
    /\ voiceSearchError = Null
    /\ primaryAnimal # Null


(***************************************************************************)
(* C35: no search is started with a term that is empty after trimming: the *)
(* search bar submits only text with a character that is not white space,  *)
(* the end handler of the capture session searches only for such a         *)
(* transcript, and the suggestions are fixed names.                        *)
(***************************************************************************)
NotBlank(term) == \E k \in DOMAIN term : ~IsSpace(term[k])

C35_SearchTermNeverBlank ==
    \A i \in DOMAIN searches : NotBlank(searches[i].term)

\* the capture session ended and its end handler started the search for the
\* spoken name
C35_Witness ==
    /\ recognition = "inactive" /\ recognitionRef # Null
    /\ isLoading
    /\ \E i \in DOMAIN searches : searches[i].term = <<"tiger">>


(***************************************************************************)
(* C36: isLoading is true in every state in which a lookup of a search is  *)
(* still in flight, also when two searches overlap and one of them has     *)
(* completed.                                                              *)
(***************************************************************************)
C36_LoadingWhileSearchInFlight ==
    searches # <<>> => isLoading


(***************************************************************************)
(* C37: at most one video job is in flight: no job is submitted to the     *)
(* provider while an earlier submitted job has neither completed nor       *)
(* failed, whatever generate, search, toggleMode and reset were called.    *)
(***************************************************************************)
SubmittedJobs ==
    { j \in DOMAIN videoJobs : videoJobs[j].pc \in {"generateVideos", "getVideosOperation", "fetch"} }

C37_OneVideoJobInFlight ==
    Cardinality(SubmittedJobs) <= 1

(***************************************************************************)
(* C38: reset leaves the state of a fresh session, whatever the state      *)
(* before: explore mode, no primary and no comparison animal, no error, no *)
(* video state, no voice state and no listening (a listening session is    *)
(* stopped), no summary state, and isLoading, isVideoLoading and           *)
(* isComparisonSummaryLoading all false.                                   *)
(***************************************************************************)
C38_ResetRestoresInitialState ==
    [][reset
       => /\ mode' = "explore" /\ primaryAnimal' = Null /\ comparisonAnimal' = Null
          /\ error' = Null
          /\ videoUrl' = Null /\ videoError' = Null /\ ~showVideoApiKeyPrompt'
          /\ ~isVoiceListening' /\ voiceSearchText' = <<>> /\ voiceSearchError' = Null
          /\ (isVoiceListening /\ recognition = "active") => recognition' = "stopping"
          /\ comparisonSummaryData' = Null /\ comparisonSummaryError' = Null
          /\ ~isLoading' /\ ~isVideoLoading' /\ ~isComparisonSummaryLoading']_vars


(***************************************************************************)
(* C39: in every state a comparison animal implies a primary animal, also  *)
(* when reset or toggleMode runs while a search is in flight.              *)
(***************************************************************************)
C39_ComparisonImpliesPrimary ==
    comparisonAnimal # Null => primaryAnimal # Null

(***************************************************************************)
(* C40: in every state showVideoApiKeyPrompt implies a video error: the    *)
(* flag is set only together with a message, and whatever clears the       *)
(* message (search, generate, toggleMode, reset) clears the flag.          *)
(***************************************************************************)
C40_PromptImpliesVideoError ==
    showVideoApiKeyPrompt => videoError # Null

\* a job that failed for the credentials left the prompt and its message
\* while another job is still running
C40_Witness ==
    /\ showVideoApiKeyPrompt
    /\ videoError = KeyRequiredMessage
    /\ videoJobs # <<>>

=============================================================================
